---------------------------- MODULE Spec2Model ----------------------------
(***************************************************************************)
(* A model of backend/json2mdb.py (class JsonToMdbConverter): the loader   *)
(* that splits the OData-style document into organisation and              *)
(* communication records, schema inference, row normalisation, and the     *)
(* sequence of requests convert() sends to the Access store.               *)
(*                                                                         *)
(* Values are the Python values json.load can produce (plus datetime,      *)
(* which the static helpers accept): a record whose field k is the Python  *)
(* type and whose field v is the payload.  A str is a sequence of text     *)
(* tokens, a list a sequence of values, a dict a sequence of key/value     *)
(* pairs in insertion order (Python dicts keep insertion order).           *)
(***************************************************************************)
EXTENDS Integers, Sequences, FiniteSets, TLC

(***************************************************************************)
(* Bounds of the model.                                                    *)
(***************************************************************************)
MaxOrgs == 2      \* top-level records in d.results
MaxTokens == 4    \* tokens in a probed text value
MaxItems == 2     \* elements of a probed array / members of a probed object

(***************************************************************************)
(* Python values.                                                          *)
(***************************************************************************)
None == [k |-> "null"]
PyBool(b) == [k |-> "bool", v |-> b]
PyInt(n) == [k |-> "int", v |-> n]
PyFloat(r) == [k |-> "float", v |-> r]     \* r: the repr, "1.5", "0.0", "inf", "nan"
PyStr(s) == [k |-> "str", v |-> s]
PyList(xs) == [k |-> "list", v |-> xs]
PyDict(ps) == [k |-> "dict", v |-> ps]
PyDatetime(d) == [k |-> "datetime", v |-> d]
Item(key, val) == [key |-> key, val |-> val]

Keys(d) == [i \in 1..Len(d.v) |-> d.v[i].key]
KeySet(d) == {d.v[i].key : i \in 1..Len(d.v)}
HasKey(d, key) == key \in KeySet(d)
Lookup(d, key) == d.v[CHOOSE i \in 1..Len(d.v) : d.v[i].key = key].val

\* dict.get(key, default)
DictGet(d, key, default) == IF HasKey(d, key) THEN Lookup(d, key) ELSE default

\* bool(value), as `if not data` evaluates it
Truthy(x) ==
    CASE x.k = "null" -> FALSE
      [] x.k = "bool" -> x.v
      [] x.k = "int" -> x.v # 0
      [] x.k = "float" -> x.v # "0.0"
      [] x.k \in {"str", "list", "dict"} -> Len(x.v) > 0
      [] x.k = "datetime" -> TRUE

\* the values `for e in x` yields; iterating a dict yields its keys, a str its characters
Iterable(x) == x.k \in {"str", "list", "dict"}
PyIter(x) ==
    CASE x.k = "list" -> x.v
      [] x.k = "dict" -> [i \in 1..Len(x.v) |-> PyStr(<<x.v[i].key>>)]
      [] x.k = "str" -> [i \in 1..Len(x.v) |-> PyStr(<<x.v[i]>>)]

\* `key in x` is defined for dict (a key), list (an element) and str (a substring)
Containerish(x) == x.k \in {"str", "list", "dict"}
PyIn(key, x) ==
    CASE x.k = "dict" -> HasKey(x, key)
      [] x.k = "list" -> \E i \in 1..Len(x.v) : x.v[i] = PyStr(<<key>>)
      [] x.k = "str" -> \E i \in 1..Len(x.v) : x.v[i] = key

Ok(x) == [err |-> "", val |-> x]
Err(e) == [err |-> e, val |-> <<>>]

(***************************************************************************)
(* json.dumps(value, ensure_ascii=False): the text as its sequence of JSON *)
(* tokens.  allow_nan is left at its default, so a non-finite float is     *)
(* written as the bare word Infinity or NaN.                               *)
(***************************************************************************)
Kw(c) == [t |-> "kw", c |-> c]
Punct(c) == [t |-> "p", c |-> c]
NumInt(n) == [t |-> "int", n |-> n]
NumFloat(c) == [t |-> "float", c |-> c]
StrTok(s) == [t |-> "str", s |-> s]

RECURSIVE json_dumps(_)
RECURSIVE DumpItems(_, _)
RECURSIVE DumpMembers(_, _)
DumpItems(xs, i) ==
    IF i > Len(xs) THEN <<>>
    ELSE (IF i > 1 THEN <<Punct(",")>> ELSE <<>>) \o json_dumps(xs[i]) \o DumpItems(xs, i + 1)
DumpMembers(ps, i) ==
    IF i > Len(ps) THEN <<>>
    ELSE (IF i > 1 THEN <<Punct(",")>> ELSE <<>>)
         \o <<StrTok(<<ps[i].key>>), Punct(":")>> \o json_dumps(ps[i].val)
         \o DumpMembers(ps, i + 1)
json_dumps(x) ==
    CASE x.k = "null" -> <<Kw("null")>>
      [] x.k = "bool" -> <<Kw(IF x.v THEN "true" ELSE "false")>>
      [] x.k = "int" -> <<NumInt(x.v)>>
      [] x.k = "float" -> IF x.v = "inf" THEN <<Kw("Infinity")>>
                          ELSE IF x.v = "nan" THEN <<Kw("NaN")>>
                          ELSE <<NumFloat(x.v)>>
      [] x.k = "str" -> <<StrTok(x.v)>>
      [] x.k = "list" -> <<Punct("[")>> \o DumpItems(x.v, 1) \o <<Punct("]")>>
      [] x.k = "dict" -> <<Punct("{")>> \o DumpMembers(x.v, 1) \o <<Punct("}")>>

(***************************************************************************)
(* The JSON grammar (RFC 8259) over the same tokens: what "valid JSON"     *)
(* means, and the value a valid text denotes.                              *)
(***************************************************************************)
NoParse == [ok |-> FALSE, val |-> None, next |-> 0]
Parsed(x, n) == [ok |-> TRUE, val |-> x, next |-> n]
IsPunct(toks, i, c) == i <= Len(toks) /\ toks[i].t = "p" /\ toks[i].c = c

RECURSIVE ParseValue(_, _)
RECURSIVE ParseElements(_, _, _)
RECURSIVE ParseMembers(_, _, _)
ParseElements(toks, i, acc) ==
    LET r == ParseValue(toks, i) IN
    IF ~r.ok THEN NoParse
    ELSE IF IsPunct(toks, r.next, ",") THEN ParseElements(toks, r.next + 1, Append(acc, r.val))
    ELSE IF IsPunct(toks, r.next, "]") THEN Parsed(PyList(Append(acc, r.val)), r.next + 1)
    ELSE NoParse
ParseMembers(toks, i, acc) ==
    IF ~(i + 1 <= Len(toks) /\ toks[i].t = "str" /\ Len(toks[i].s) = 1 /\ IsPunct(toks, i + 1, ":"))
    THEN NoParse
    ELSE LET r == ParseValue(toks, i + 2)
             m == Append(acc, Item(toks[i].s[1], r.val)) IN
         IF ~r.ok THEN NoParse
         ELSE IF IsPunct(toks, r.next, ",") THEN ParseMembers(toks, r.next + 1, m)
         ELSE IF IsPunct(toks, r.next, "}") THEN Parsed(PyDict(m), r.next + 1)
         ELSE NoParse
ParseValue(toks, i) ==
    IF i > Len(toks) THEN NoParse
    ELSE LET t == toks[i] IN
         CASE t.t = "kw" -> IF t.c = "null" THEN Parsed(None, i + 1)
                            ELSE IF t.c = "true" THEN Parsed(PyBool(TRUE), i + 1)
                            ELSE IF t.c = "false" THEN Parsed(PyBool(FALSE), i + 1)
                            ELSE NoParse
           [] t.t = "int" -> Parsed(PyInt(t.n), i + 1)
           [] t.t = "float" -> Parsed(PyFloat(t.c), i + 1)
           [] t.t = "str" -> Parsed(PyStr(t.s), i + 1)
           [] t.t = "p" -> IF t.c = "[" THEN
                               IF IsPunct(toks, i + 1, "]") THEN Parsed(PyList(<<>>), i + 2)
                               ELSE ParseElements(toks, i + 1, <<>>)
                           ELSE IF t.c = "{" THEN
                               IF IsPunct(toks, i + 1, "}") THEN Parsed(PyDict(<<>>), i + 2)
                               ELSE ParseMembers(toks, i + 1, <<>>)
                           ELSE NoParse
IsValidJson(toks) == LET r == ParseValue(toks, 1) IN r.ok /\ r.next = Len(toks) + 1
JsonValue(toks) == ParseValue(toks, 1).val

(***************************************************************************)
(* Text tokens: a calendar date, the letter T, a time of day, the letter   *)
(* Z, a UTC offset and a plain word.                                       *)
(***************************************************************************)
DateTok == "2024-01-15"
TimeTok == "10:30:00"
OffsetTok == "+00:00"
TextTokens == {DateTok, "T", TimeTok, "Z", OffsetTok, "hello"}

\* str.replace("Z", "+00:00"): every occurrence is replaced
ReplaceZ(s) == [i \in 1..Len(s) |-> IF s[i] = "Z" THEN OffsetTok ELSE s[i]]

\* datetime.fromisoformat succeeds (CPython 3.11): a date, then optionally a
\* separator character and a time, then optionally an offset.  The sign of an
\* offset token is read as the separator and its digits as the time hh:mm.
IsoTimePart(s) == s = <<"T", TimeTok>> \/ s = <<OffsetTok>>
IsoZonePart(s) == s = <<OffsetTok>> \/ s = <<"T", OffsetTok>>
fromisoformat(s) ==
    /\ Len(s) >= 1
    /\ s[1] = DateTok
    /\ \/ Len(s) = 1
       \/ \E n \in 2..Len(s) :
             /\ IsoTimePart(SubSeq(s, 2, n))
             /\ n = Len(s) \/ IsoZonePart(SubSeq(s, n + 1, Len(s)))

_is_datetime(value) ==
    IF value.k = "datetime" THEN TRUE
    ELSE IF value.k = "str" THEN fromisoformat(ReplaceZ(value.v))
    ELSE FALSE

_infer_type(value) ==
    IF value.k = "bool" THEN "YESNO"
    ELSE IF value.k = "int" THEN "INTEGER"
    ELSE IF value.k = "float" THEN "DOUBLE"
    ELSE IF _is_datetime(value) THEN "DATETIME"
    ELSE "TEXT(255)"

convert_value(value) ==
    IF value.k = "null" THEN None
    ELSE IF value.k \in {"str", "int", "float", "bool", "datetime"} THEN value
    ELSE PyStr(json_dumps(value))


\* faulty variant: a column whose key the record lacks is skipped
_normalize_record_skip_absent(record, schema) ==
    LET present == SelectSeq(schema, LAMBDA c : HasKey(record, c.field)) IN
    [j \in 1..Len(present) |-> convert_value(Lookup(record, present[j].field))]

\* tuple(convert_value(record.get(field)) for field in schema.keys())
_normalize_record(record, schema) ==
    [j \in 1..Len(schema) |-> convert_value(DictGet(record, schema[j].field, None))]

(***************************************************************************)
(* _extract_schema: a schema is the ordered dict field -> type, here the   *)
(* sequence of its items.  record.items() raises AttributeError for a      *)
(* record that is not a dict.                                              *)
(***************************************************************************)
Column(field, ftype) == [field |-> field, ftype |-> ftype]
SchemaFields(schema) == [j \in 1..Len(schema) |-> schema[j].field]
SchemaHas(schema, key) == \E j \in 1..Len(schema) : schema[j].field = key
SchemaSet(schema, key, ftype) ==
    IF SchemaHas(schema, key)
    THEN [j \in 1..Len(schema) |->
             IF schema[j].field = key THEN Column(key, ftype) ELSE schema[j]]
    ELSE Append(schema, Column(key, ftype))

RECURSIVE ExtractItems(_, _, _)
ExtractItems(items, j, schema) ==
    IF j > Len(items) THEN schema
    ELSE IF items[j].key = "__metadata" THEN ExtractItems(items, j + 1, schema)
    ELSE IF ~SchemaHas(schema, items[j].key)
         THEN ExtractItems(items, j + 1,
                           SchemaSet(schema, items[j].key, _infer_type(items[j].val)))
         ELSE ExtractItems(items, j + 1, schema)

RECURSIVE ExtractRecords(_, _, _)
ExtractRecords(records, i, schema) ==
    IF i > Len(records) THEN schema
    ELSE ExtractRecords(records, i + 1, ExtractItems(records[i].v, 1, schema))

\* faulty variants: the metadata key kept; the type revised by every later sample
RECURSIVE ExtractItemsKeepMeta(_, _, _)
ExtractItemsKeepMeta(items, j, schema) ==
    IF j > Len(items) THEN schema
    ELSE IF ~SchemaHas(schema, items[j].key)
         THEN ExtractItemsKeepMeta(items, j + 1,
                           SchemaSet(schema, items[j].key, _infer_type(items[j].val)))
         ELSE ExtractItemsKeepMeta(items, j + 1, schema)
RECURSIVE ExtractItemsLastWins(_, _, _)
ExtractItemsLastWins(items, j, schema) ==
    IF j > Len(items) THEN schema
    ELSE IF items[j].key = "__metadata" THEN ExtractItemsLastWins(items, j + 1, schema)
    ELSE ExtractItemsLastWins(items, j + 1,
                           SchemaSet(schema, items[j].key, _infer_type(items[j].val)))
RECURSIVE ExtractRecordsWith(_, _, _, _)
ExtractRecordsWith(Items(_, _, _), records, i, schema) ==
    IF i > Len(records) THEN schema
    ELSE ExtractRecordsWith(Items, records, i + 1, Items(records[i].v, 1, schema))
_extract_schema_keep_metadata(records) ==
    IF \E i \in 1..Len(records) : records[i].k # "dict" THEN Err("AttributeError")
    ELSE Ok(ExtractRecordsWith(ExtractItemsKeepMeta, records, 1, <<>>))
_extract_schema_last_wins(records) ==
    IF \E i \in 1..Len(records) : records[i].k # "dict" THEN Err("AttributeError")
    ELSE Ok(ExtractRecordsWith(ExtractItemsLastWins, records, 1, <<>>))

_extract_schema(records) ==
    IF \E i \in 1..Len(records) : records[i].k # "dict" THEN Err("AttributeError")
    ELSE Ok(ExtractRecords(records, 1, <<>>))

(***************************************************************************)
(* _load_json, lines 39-48: the split of the top-level records.            *)
(***************************************************************************)
NotCommunications(p) == p.key # "Communications"
SplitOk(orgs, comms) == [err |-> "", org_list |-> orgs, comm_list |-> comms]
SplitErr(e) == [err |-> e, org_list |-> <<>>, comm_list |-> <<>>]

RECURSIVE SplitRecords(_, _, _, _)
SplitRecords(data, i, org_list, comm_list) ==
    IF i > Len(data) THEN SplitOk(org_list, comm_list)
    ELSE LET org == data[i] IN
         IF org.k # "dict" THEN SplitErr("AttributeError")
         ELSE LET org_copy == PyDict(SelectSeq(org.v, NotCommunications))
                  orgs == Append(org_list, org_copy) IN
              IF ~HasKey(org, "Communications") THEN SplitRecords(data, i + 1, orgs, comm_list)
              ELSE LET comm == Lookup(org, "Communications") IN
                   IF ~Containerish(comm) THEN SplitErr("TypeError")
                   ELSE IF ~PyIn("results", comm) THEN SplitRecords(data, i + 1, orgs, comm_list)
                   ELSE IF comm.k # "dict" THEN SplitErr("TypeError")
                   ELSE IF ~Iterable(Lookup(comm, "results")) THEN SplitErr("TypeError")
                   ELSE SplitRecords(data, i + 1, orgs,
                                     comm_list \o PyIter(Lookup(comm, "results")))

(***************************************************************************)
(* The inputs: the JSON file, the template path and the destination path.  *)
(***************************************************************************)
Word(w) == PyStr(<<w>>)
IsoText == PyStr(<<DateTok, "T", TimeTok, "Z">>)

\* top-level records without their Communications field
ParentAcme == <<Item("Id", PyInt(1)), Item("Name", Word("Acme"))>>
ParentMeta ==
    <<Item("__metadata", PyDict(<<Item("uri", Word("Organizations(7)"))>>)),
      Item("Name", Word("Zeta")), Item("Id", Word("7"))>>
ParentTags ==
    <<Item("Id", PyInt(2)), Item("Founded", IsoText),
      Item("Tags", PyList(<<PyInt(1), Word("a")>>))>>
ParentNull ==
    <<Item("Name", None), Item("Active", PyBool(TRUE)), Item("Score", PyFloat("1.5"))>>
Parents == {ParentAcme, ParentMeta, ParentTags, ParentNull}

ChildEmail == PyDict(<<Item("OrgId", PyInt(1)), Item("Type", Word("email"))>>)
ChildMeta ==
    PyDict(<<Item("__metadata", PyDict(<<>>)), Item("Type", None),
             Item("OrgId", Word("x")), Item("Data", PyDict(<<Item("n", PyInt(3))>>))>>)

\* what a record carries under "Communications"; <<>> stands for no such field
CommunicationsFields ==
    { <<>>,
      <<Item("Communications", None)>>,
      <<Item("Communications", PyDict(<<Item("__deferred", Word("uri"))>>))>>,
      <<Item("Communications", PyDict(<<Item("results", PyList(<<ChildEmail>>))>>))>>,
      <<Item("Communications", PyDict(<<Item("results", PyList(<<ChildMeta, ChildEmail>>))>>))>> }

TopRecords == {PyDict(p \o c) : p \in Parents, c \in CommunicationsFields}
RecordLists == UNION {[1..n -> TopRecords] : n \in 1..MaxOrgs}

Envelope(results) == PyDict(<<Item("d", PyDict(<<Item("results", results)>>))>>)
Documents == {Envelope(PyList(rs)) : rs \in RecordLists}

\* documents whose d.results is not a non-empty array of records
OddDocuments ==
    { PyDict(<<>>), PyDict(<<Item("d", PyDict(<<>>))>>), PyDict(<<Item("d", None)>>),
      PyList(<<>>),
      Envelope(PyList(<<>>)), Envelope(None), Envelope(PyInt(0)), Envelope(PyInt(5)),
      Envelope(PyStr(<<>>)), Envelope(Word("abc")), Envelope(PyBool(TRUE)),
      Envelope(PyDict(<<>>)), Envelope(PyDict(<<Item("a", PyInt(1))>>)),
      Envelope(PyList(<<PyInt(1)>>)) }

JsonFile(state, data) == [state |-> state, data |-> data]
JsonFiles ==
    {JsonFile("ok", doc) : doc \in Documents \cup OddDocuments}
    \cup {JsonFile("missing", None), JsonFile("malformed", None)}

ExampleDocument ==
    Envelope(PyList(<<PyDict(ParentAcme \o
        <<Item("Communications", PyDict(<<Item("results", PyList(<<ChildEmail>>))>>))>>)>>))

(***************************************************************************)
(* State.                                                                  *)
(***************************************************************************)
VARIABLES
    json_file,      \* the file at json_path: missing, malformed, or a parsed document
    template_path,  \* TRUE when a template path was given, FALSE for None
    mdb_exists,     \* whether a file exists at mdb_path
    file_ops,       \* what was done to the file at mdb_path, in order
    org_schema, comm_schema, org_records, comm_records,   \* the converter's fields
    pc,             \* where convert() stands
    error,          \* the exception convert() ended with, "" for none
    conn,           \* the pyodbc connection
    requests,       \* every request sent to the store, in order, with its outcome
    tables,         \* the store's tables, in creation order
    store_rows,     \* the store's rows, in insertion order
    stdout,         \* what convert() printed
    value, inferred, converted, vpc   \* a call of the static helpers on one value

convertVars == <<json_file, template_path, mdb_exists, file_ops, org_schema, comm_schema,
                 org_records, comm_records, pc, error, conn, requests, tables, store_rows,
                 stdout>>
valueVars == <<value, inferred, converted, vpc>>
vars == <<convertVars, valueVars>>

MissingData == "RuntimeError: No 'results' found in JSON"
NoTemplate == "RuntimeError: MDB template path not provided"
ConnectFailed == "RuntimeError: Failed to connect to MDB"
StoreError == "pyodbc.Error"
Complete == "Conversion complete"

(***************************************************************************)
(* _load_json: the fields as the call leaves them, and the exception.      *)
(***************************************************************************)
Fields(e, os, cs, orr, cr) ==
    [err |-> e, org_schema |-> os, comm_schema |-> cs, org_records |-> orr, comm_records |-> cr]
LoadFailed(e) == Fields(e, org_schema, comm_schema, org_records, comm_records)

_load_json ==
    IF json_file.state = "missing" THEN LoadFailed("RuntimeError: JSON file not found")
    ELSE IF json_file.state = "malformed" THEN LoadFailed("RuntimeError: Invalid JSON format")
    ELSE LET full_data == json_file.data IN
    IF full_data.k # "dict" THEN LoadFailed("AttributeError")
    ELSE LET d == DictGet(full_data, "d", PyDict(<<>>)) IN
    IF d.k # "dict" THEN LoadFailed("AttributeError")
    ELSE LET data == DictGet(d, "results", PyList(<<>>)) IN
    IF ~Truthy(data) THEN LoadFailed(MissingData)
    ELSE IF ~Iterable(data) THEN LoadFailed("TypeError")
    ELSE LET split == SplitRecords(PyIter(data), 1, <<>>, <<>>) IN
    IF split.err # "" THEN LoadFailed(split.err)
    ELSE LET os == _extract_schema(split.org_list) IN
    IF os.err # "" THEN LoadFailed(os.err)
    ELSE LET cs == _extract_schema(split.comm_list) IN
    IF cs.err # "" THEN Fields(cs.err, os.val, comm_schema, org_records, comm_records)
    ELSE Fields("", os.val, cs.val, split.org_list, split.comm_list)

\* faulty variant: a missing template is tolerated and a file created anyway
_create_mdb_without_template ==
    [exists |-> TRUE,
     ops |-> (IF mdb_exists THEN <<"remove">> ELSE <<>>) \o <<"create">>,
     err |-> ""]

\* _create_mdb: the file at mdb_path afterwards, what was done to it, the exception
_create_mdb ==
    [exists |-> template_path,
     ops |-> (IF mdb_exists THEN <<"remove">> ELSE <<>>)
             \o (IF template_path THEN <<"copy">> ELSE <<>>),
     err |-> IF template_path THEN "" ELSE NoTemplate]

\* faulty variant: the exception is swallowed
AfterSwallowed(ok, next) == next
\* an exception leaves convert(); nothing catches it
After(ok, next) == IF ok THEN next ELSE "failed"

\* faulty variant: every column declared TEXT(255)
build_table_sql_untyped(table_name, schema) ==
    [op |-> "CREATE TABLE", table |-> table_name,
     cols |-> [j \in 1..Len(schema) |-> <<schema[j].field, "TEXT(255)">>]]
\* the CREATE TABLE statement: the table and its "[field] ftype" columns
build_table_sql(table_name, schema) ==
    [op |-> "CREATE TABLE", table |-> table_name,
     cols |-> [j \in 1..Len(schema) |-> <<schema[j].field, schema[j].ftype>>]]

\* the INSERT statement: the table, its bracketed column names, one "?" per column
InsertSql(table_name, schema) ==
    [op |-> "INSERT INTO", table |-> table_name, cols |-> SchemaFields(schema),
     placeholders |-> Len(schema)]

Sent(req, ok) == [req |-> req, ok |-> ok]

(***************************************************************************)
(* convert(), one action per statement that can raise.                     *)
(***************************************************************************)
ValueIdle ==
    /\ value = None
    /\ inferred = ""
    /\ converted = None
    /\ vpc = "idle"

Fresh ==
    /\ file_ops = <<>>
    /\ org_schema = <<>>
    /\ comm_schema = <<>>
    /\ org_records = <<>>
    /\ comm_records = <<>>
    /\ error = ""
    /\ conn = "none"
    /\ requests = <<>>
    /\ tables = <<>>
    /\ store_rows = <<>>
    /\ stdout = <<>>

Init ==
    /\ json_file \in JsonFiles
    /\ template_path \in BOOLEAN
    /\ mdb_exists \in BOOLEAN
    /\ pc = "load_json"
    /\ Fresh
    /\ ValueIdle

\* line 19
LoadJson ==
    /\ pc = "load_json"
    /\ LET out == _load_json IN
       /\ org_schema' = out.org_schema
       /\ comm_schema' = out.comm_schema
       /\ org_records' = out.org_records
       /\ comm_records' = out.comm_records
       /\ error' = out.err
       /\ pc' = After(out.err = "", "create_mdb")
    /\ UNCHANGED <<json_file, template_path, mdb_exists, file_ops, conn, requests, tables,
                   store_rows, stdout, valueVars>>

\* line 20
CreateMdb ==
    /\ pc = "create_mdb"
    /\ LET out == _create_mdb IN
       /\ mdb_exists' = out.exists
       /\ file_ops' = file_ops \o out.ops
       /\ error' = out.err
       /\ pc' = After(out.err = "", "connect")
    /\ UNCHANGED <<json_file, template_path, org_schema, comm_schema, org_records,
                   comm_records, conn, requests, tables, store_rows, stdout, valueVars>>

\* line 21, _connect_mdb
ConnectMdb ==
    /\ pc = "connect"
    /\ \E ok \in BOOLEAN :
          /\ requests' = Append(requests, Sent([op |-> "connect"], ok))
          /\ conn' = IF ok THEN "open" ELSE "none"
          /\ error' = IF ok THEN error ELSE ConnectFailed
          /\ pc' = After(ok, "create_organizations")
    /\ UNCHANGED <<json_file, template_path, mdb_exists, file_ops, org_schema, comm_schema,
                   org_records, comm_records, tables, store_rows, stdout, valueVars>>

\* cursor.execute(build_table_sql(table_name, schema)), after its print
CreateTable(at, table_name, schema, next) ==
    /\ pc = at
    /\ stdout' = Append(stdout, "Creating table " \o table_name)
    /\ LET sql == build_table_sql(table_name, schema) IN
       \E ok \in BOOLEAN :
          /\ requests' = Append(requests, Sent(sql, ok))
          /\ tables' = IF ok THEN Append(tables, [name |-> sql.table, cols |-> sql.cols])
                       ELSE tables
          /\ error' = IF ok THEN error ELSE StoreError
          /\ pc' = After(ok, next)
    /\ UNCHANGED <<json_file, template_path, mdb_exists, file_ops, org_schema, comm_schema,
                   org_records, comm_records, conn, store_rows, valueVars>>

\* conn.commit()
Commit(at, next) ==
    /\ pc = at
    /\ \E ok \in BOOLEAN :
          /\ requests' = Append(requests, Sent([op |-> "commit"], ok))
          /\ error' = IF ok THEN error ELSE StoreError
          /\ pc' = After(ok, next)
    /\ UNCHANGED <<json_file, template_path, mdb_exists, file_ops, org_schema, comm_schema,
                   org_records, comm_records, conn, tables, store_rows, stdout, valueVars>>

\* _insert_records: one executemany.  The connection is in autocommit mode, so
\* a failing executemany may have stored any proper prefix of the rows.
_insert_records(at, table_name, schema, records, next) ==
    /\ pc = at
    /\ LET insert_sql == InsertSql(table_name, schema)
           normalized == [i \in 1..Len(records) |-> _normalize_record(records[i], schema)]
           stored(n) == [i \in 1..n |-> [table |-> table_name, row |-> normalized[i]]] IN
       \E ok \in BOOLEAN :
          \E n \in 0..Len(normalized) :
             /\ IF ok THEN n = Len(normalized) ELSE n < Len(normalized) \/ n = 0
             /\ requests' = Append(requests,
                                   Sent([op |-> "executemany", sql |-> insert_sql,
                                         params |-> normalized], ok))
             /\ store_rows' = store_rows \o stored(n)
             /\ error' = IF ok THEN error ELSE StoreError
             /\ pc' = After(ok, next)
    /\ UNCHANGED <<json_file, template_path, mdb_exists, file_ops, org_schema, comm_schema,
                   org_records, comm_records, conn, tables, stdout, valueVars>>

\* lines 81-82
CreateOrganizations ==
    CreateTable("create_organizations", "Organizations", org_schema, "create_communications")
\* lines 83-84
CreateCommunications ==
    CreateTable("create_communications", "Communications", comm_schema, "commit_tables")
\* line 85
CommitTables == Commit("commit_tables", "insert_organizations")
\* line 89
InsertOrganizations ==
    _insert_records("insert_organizations", "Organizations", org_schema, org_records,
                    "insert_communications")
\* line 90
InsertCommunications ==
    _insert_records("insert_communications", "Communications", comm_schema, comm_records,
                    "commit_data")
\* line 91
CommitData == Commit("commit_data", "report")

\* line 24; leaving the with block sends nothing (autocommit)
ReportSuccess ==
    /\ pc = "report"
    /\ stdout' = Append(stdout, Complete)
    /\ pc' = "done"
    /\ UNCHANGED <<json_file, template_path, mdb_exists, file_ops, org_schema, comm_schema,
                   org_records, comm_records, error, conn, requests, tables, store_rows,
                   valueVars>>

Next ==
    \/ LoadJson
    \/ CreateMdb
    \/ ConnectMdb
    \/ CreateOrganizations
    \/ CreateCommunications
    \/ CommitTables
    \/ InsertOrganizations
    \/ InsertCommunications
    \/ CommitData
    \/ ReportSuccess

Spec == Init /\ [][Next]_vars

(***************************************************************************)
(* The static helpers applied to one value.                                *)
(***************************************************************************)
Texts == UNION {[1..n -> TextTokens] : n \in 0..MaxTokens}
JsonScalars ==
    {None, PyBool(TRUE), PyInt(1), PyFloat("1.5"), PyFloat("inf"), Word("hello")}
MemberKeys == {"a", "b"}
ListsOf(S) == {PyList(xs) : xs \in UNION {[1..n -> S] : n \in 0..MaxItems}}
DictsOf(S) ==
    {PyDict(ps) : ps \in {qs \in UNION {[1..n -> {Item(key, x) : key \in MemberKeys, x \in S}]
                                          : n \in 0..MaxItems} :
                             \A i, j \in 1..Len(qs) : qs[i].key = qs[j].key => i = j}}
Flat == ListsOf(JsonScalars) \cup DictsOf(JsonScalars)
Nested == {PyList(<<c>>) : c \in Flat} \cup {PyDict(<<Item("a", c)>>) : c \in Flat}
Composites == Flat \cup Nested
Scalars ==
    {None, PyBool(TRUE), PyBool(FALSE), PyInt(0), PyInt(1), PyFloat("0.0"), PyFloat("1.5"),
     PyFloat("inf"), PyFloat("nan"), PyDatetime("2024-01-15 10:30:00")}
    \cup {PyStr(s) : s \in Texts}
Values == Scalars \cup Composites

InitValue ==
    /\ json_file = JsonFile("missing", None)
    /\ template_path = FALSE
    /\ mdb_exists = FALSE
    /\ pc = "idle"
    /\ Fresh
    /\ value \in Values
    /\ inferred = ""
    /\ converted = None
    /\ vpc = "given"

InferType ==
    /\ vpc = "given"
    /\ inferred' = _infer_type(value)
    /\ vpc' = "inferred"
    /\ UNCHANGED <<value, converted, convertVars>>

ConvertValue ==
    /\ vpc = "given"
    /\ converted' = convert_value(value)
    /\ vpc' = "converted"
    /\ UNCHANGED <<value, inferred, convertVars>>

NextValue ==
    \/ InferType
    \/ ConvertValue

SpecValue == InitValue /\ [][NextValue]_vars

(***************************************************************************)
(* Vocabulary of the properties.                                           *)
(***************************************************************************)
Range(s) == {s[i] : i \in 1..Len(s)}
LoadErrors ==
    {"RuntimeError: JSON file not found", "RuntimeError: Invalid JSON format", MissingData,
     "AttributeError", "TypeError"}
LoadReturned == pc \notin {"idle", "load_json"} /\ error \notin LoadErrors

\* d.results of the document is a non-empty array
ResolvesToNonEmptyArray ==
    /\ json_file.state = "ok"
    /\ json_file.data.k = "dict"
    /\ HasKey(json_file.data, "d")
    /\ Lookup(json_file.data, "d").k = "dict"
    /\ HasKey(Lookup(json_file.data, "d"), "results")
    /\ Lookup(Lookup(json_file.data, "d"), "results").k = "list"
    /\ Len(Lookup(Lookup(json_file.data, "d"), "results").v) > 0
SourceRecords == Lookup(Lookup(json_file.data, "d"), "results").v
ListOfRecords == ResolvesToNonEmptyArray /\ \A i \in 1..Len(SourceRecords) : SourceRecords[i].k = "dict"

NoStoreSideStep ==
    /\ file_ops = <<>>
    /\ conn = "none"
    /\ requests = <<>>
    /\ tables = <<>>
    /\ store_rows = <<>>

Without(record, key) == PyDict(SelectSeq(record.v, LAMBDA p : p.key # key))
NestedResults(record) ==
    IF /\ HasKey(record, "Communications")
       /\ Lookup(record, "Communications").k = "dict"
       /\ HasKey(Lookup(record, "Communications"), "results")
       /\ Lookup(Lookup(record, "Communications"), "results").k = "list"
    THEN Lookup(Lookup(record, "Communications"), "results").v
    ELSE <<>>
RECURSIVE Concat(_, _)
Concat(F(_), n) == IF n = 0 THEN <<>> ELSE Concat(F, n - 1) \o F(n)
ExpectedParents == [i \in 1..Len(SourceRecords) |-> Without(SourceRecords[i], "Communications")]
ExpectedChildren == LET kids(i) == NestedResults(SourceRecords[i]) IN Concat(kids, Len(SourceRecords))

\* every key of the records, record after record, each record in its own order
FlatKeys(records) == LET keys(i) == Keys(records[i]) IN Concat(keys, Len(records))
FirstPos(flat, key) == CHOOSE i \in 1..Len(flat) : flat[i] = key /\ \A h \in 1..(i - 1) : flat[h] # key
ColumnsAre(schema, records, excluded) ==
    LET cols == SchemaFields(schema)
        flat == FlatKeys(records)
        wanted == Range(flat) \ excluded IN
    /\ Range(cols) = wanted
    /\ Len(cols) = Cardinality(wanted)
    /\ \A i, j \in 1..Len(cols) : i < j => FirstPos(flat, cols[i]) < FirstPos(flat, cols[j])

FirstSample(records, key) ==
    Lookup(records[CHOOSE i \in 1..Len(records) :
                      HasKey(records[i], key) /\ \A h \in 1..(i - 1) : ~HasKey(records[h], key)],
           key)
FirstValueWins(schema, records) ==
    \A j \in 1..Len(schema) : schema[j].ftype = _infer_type(FirstSample(records, schema[j].field))
NativeScalar(x) == x.k \in {"str", "int", "float", "bool", "datetime"}

BulkInserts == {i \in 1..Len(requests) : requests[i].req.op = "executemany"}
RecordsOf(table) == IF table = "Organizations" THEN org_records ELSE comm_records
SchemaOf(table) == IF table = "Organizations" THEN org_schema ELSE comm_schema
ExpectedCell(record, field) ==
    IF HasKey(record, field) THEN convert_value(Lookup(record, field)) ELSE None
RowsOf(table) ==
    LET mine == SelectSeq(store_rows, LAMBDA r : r.table = table) IN
    [i \in 1..Len(mine) |-> mine[i].row]
TypedColumns(schema) == [j \in 1..Len(schema) |-> <<schema[j].field, schema[j].ftype>>]
ExpectedRows(records, schema) ==
    [i \in 1..Len(records) |-> [j \in 1..Len(schema) |-> ExpectedCell(records[i], schema[j].field)]]
Ops == [i \in 1..Len(requests) |->
          IF requests[i].req.op = "CREATE TABLE" THEN <<"CREATE TABLE", requests[i].req.table>>
          ELSE IF requests[i].req.op = "executemany"
               THEN <<"executemany", requests[i].req.sql.table>>
          ELSE <<requests[i].req.op, "">>]
WholeRun ==
    << <<"connect", "">>, <<"CREATE TABLE", "Organizations">>,
       <<"CREATE TABLE", "Communications">>, <<"commit", "">>,
       <<"executemany", "Organizations">>, <<"executemany", "Communications">>,
       <<"commit", "">> >>
Reported == Complete \in Range(stdout)

(* C1: whenever d.results of a parsed document is missing, empty or anything
   but a non-empty array, _load_json fails with the missing-data error and
   convert ends before any store-side step (no file operation on the
   destination, no connection, no request, no table, no row). *)
C1_MissingDataErrorForEveryNonArray ==
    (json_file.state = "ok" /\ ~ResolvesToNonEmptyArray /\ pc # "load_json")
        => (pc = "failed" /\ error = MissingData /\ NoStoreSideStep)

(* C2: after a load, the columns of each schema are exactly the distinct keys
   of its records, without __metadata (and, for the organisations, without
   Communications), as many as there are such keys, in first-encounter
   order. *)
C2_SchemaColumnsInFirstEncounterOrder ==
    LoadReturned =>
        /\ ColumnsAre(org_schema, SourceRecords, {"__metadata", "Communications"})
        /\ ColumnsAre(comm_schema, comm_records, {"__metadata"})
C2_Witness ==
    /\ LoadReturned
    /\ Len(SourceRecords) = 2
    /\ HasKey(SourceRecords[1], "Communications")
    /\ HasKey(SourceRecords[2], "__metadata")
    /\ SchemaFields(org_schema) = <<"Id", "Name">>
    /\ SchemaFields(comm_schema) = <<"Type", "OrgId", "Data">>

(* C3: first value wins: each column's type is the type inferred from the
   value of the first record that has the key, whatever later records hold;
   and every native scalar of a record reaches its row unchanged, also when
   its kind differs from the column's type. *)
C3_FirstValueWins ==
    LoadReturned =>
        /\ FirstValueWins(org_schema, org_records)
        /\ FirstValueWins(comm_schema, comm_records)
        /\ \A q \in BulkInserts :
              LET sql == requests[q].req.sql
                  records == RecordsOf(sql.table) IN
              \A i \in 1..Len(records) : \A j \in 1..Len(sql.cols) :
                  (HasKey(records[i], sql.cols[j]) /\ NativeScalar(Lookup(records[i], sql.cols[j])))
                      => requests[q].req.params[i][j] = Lookup(records[i], sql.cols[j])
C3_Witness ==
    /\ LoadReturned
    /\ \E q \in BulkInserts :
          /\ requests[q].req.sql.table = "Organizations"
          /\ Len(org_records) = 2
          /\ \E j \in 1..Len(org_schema) :
                /\ org_schema[j] = Column("Id", "INTEGER")
                /\ Lookup(org_records[1], "Id") = PyInt(1)
                /\ requests[q].req.params[2][j] = Word("7")

(* C4: every row handed to a bulk insert has one value per schema column,
   in the schema's order: the record's (converted) value for that column's
   key, null where the record lacks the key; so each row has as many values
   as the statement has placeholders and column names, and there is one row
   per record. *)
C4_RowsAlignedWithSchema ==
    \A q \in BulkInserts :
        LET sql == requests[q].req.sql
            params == requests[q].req.params
            records == RecordsOf(sql.table)
            schema == SchemaOf(sql.table) IN
        /\ Len(params) = Len(records)
        /\ sql.cols = SchemaFields(schema)
        /\ sql.placeholders = Len(sql.cols)
        /\ \A i \in 1..Len(params) :
              /\ Len(params[i]) = Len(schema)
              /\ Len(params[i]) = sql.placeholders
              /\ \A j \in 1..Len(schema) :
                    /\ j \in DOMAIN params[i]
                    /\ params[i][j] = ExpectedCell(records[i], schema[j].field)
C4_Witness ==
    \E q \in BulkInserts :
        /\ requests[q].req.sql.table = "Organizations"
        /\ requests[q].req.sql.cols = <<"Id", "Name", "Founded", "Tags">>
        /\ ~HasKey(org_records[2], "Name")
        /\ requests[q].req.params[2][2] = None
        /\ requests[q].req.params[2][1] = PyInt(2)

(* C5: a run that reports success has left exactly the two tables
   Organizations and Communications, each created once and before any row
   was inserted, with the columns (names, order, types) of the inferred
   organisation and communication schemas, and one row per top-level record
   and per nested child, in list order; the example document gives
   Organizations [Id INTEGER, Name TEXT] with (1, "Acme") and Communications
   [OrgId INTEGER, Type TEXT] with (1, "email"). *)
C5_TwoTablesWithInferredSchemas ==
    /\ store_rows # <<>> =>
          {tables[i].name : i \in 1..Len(tables)} = {"Organizations", "Communications"}
    /\ Reported =>
          /\ tables = << [name |-> "Organizations", cols |-> TypedColumns(org_schema)],
                         [name |-> "Communications", cols |-> TypedColumns(comm_schema)] >>
          /\ \A t \in {"Organizations", "Communications"} :
                Cardinality({i \in 1..Len(requests) :
                                requests[i].req.op = "CREATE TABLE" /\ requests[i].req.table = t}) = 1
          /\ \A i, j \in 1..Len(requests) :
                (requests[i].req.op = "CREATE TABLE" /\ requests[j].req.op = "executemany") => i < j
          /\ RowsOf("Organizations") = ExpectedRows(ExpectedParents, org_schema)
          /\ Len(RowsOf("Organizations")) = Len(SourceRecords)
          /\ RowsOf("Communications") = ExpectedRows(ExpectedChildren, comm_schema)
          /\ Len(store_rows) = Len(SourceRecords) + Len(ExpectedChildren)
          /\ json_file.data = ExampleDocument =>
                /\ tables = << [name |-> "Organizations",
                                cols |-> << <<"Id", "INTEGER">>, <<"Name", "TEXT(255)">> >>],
                               [name |-> "Communications",
                                cols |-> << <<"OrgId", "INTEGER">>, <<"Type", "TEXT(255)">> >>] >>
                /\ store_rows = << [table |-> "Organizations", row |-> <<PyInt(1), Word("Acme")>>],
                                   [table |-> "Communications", row |-> <<PyInt(1), Word("email")>>] >>
C5_Witness == Reported /\ pc = "done" /\ json_file.data = ExampleDocument

(* C6: a failed store request (connect, CREATE TABLE, bulk insert, commit)
   is the last request of the run: nothing is retried and nothing follows
   it, the run ends failed with the error, and success is never reported;
   success is reported only after the load and all requests of the whole
   run succeeded, each sent once and in order. *)
C6_StoreFailureAbortsRun ==
    /\ Ops = SubSeq(WholeRun, 1, Len(requests))
    /\ \A i \in 1..(Len(requests) - 1) : requests[i].ok
    /\ (\E i \in 1..Len(requests) : ~requests[i].ok) =>
          (pc = "failed" /\ error \in {ConnectFailed, StoreError} /\ ~Reported)
    /\ pc = "failed" => ~Reported /\ error # ""
    /\ Reported =>
          /\ LoadReturned
          /\ error = ""
          /\ Ops = WholeRun
          /\ \A i \in 1..Len(requests) : requests[i].ok
C6_Witness ==
    /\ pc = "failed"
    /\ Len(tables) = 2
    /\ Len(requests) = 5
    /\ ~requests[5].ok
    /\ requests[5].req.op = "executemany"
    /\ Len(requests[5].req.params) = 2

(* C7: without a template path convert fails: once past _create_mdb the run
   has ended in error, and at no point was a destination file created, a
   connection opened, a request sent, a table created or a row inserted. *)
C7_NoTemplateFails ==
    ~template_path =>
        /\ pc \notin {"idle", "load_json", "create_mdb"} => (pc = "failed" /\ error # "")
        /\ Range(file_ops) \subseteq {"remove"}
        /\ file_ops # <<>> => ~mdb_exists
        /\ conn = "none"
        /\ requests = <<>>
        /\ tables = <<>>
        /\ store_rows = <<>>
        /\ ~Reported
C7_Witness ==
    /\ ~template_path
    /\ LoadReturned
    /\ pc = "failed"
    /\ error = NoTemplate
    /\ file_ops = <<"remove">>

(* C8: the text convert_value produces for a list or a dict is valid JSON
   whose value equals the original; every other value (null, str, int,
   float, bool, datetime) is returned as it is. *)
C8_CompositeRoundTrip ==
    vpc = "converted" =>
        IF value.k \in {"list", "dict"}
        THEN /\ converted.k = "str"
             /\ IsValidJson(converted.v)
             /\ JsonValue(converted.v) = value
        ELSE converted = value

\* ISO-8601 text over the text tokens, a trailing Z or offset accepted
Iso8601Text(s) ==
    \E zone \in {<<>>, <<"Z">>, <<OffsetTok>>} :
        s = <<DateTok>> \o zone \/ s = <<DateTok, "T", TimeTok>> \o zone
ExpectedType(x) ==
    CASE x.k = "bool" -> "YESNO"
      [] x.k = "int" -> "INTEGER"
      [] x.k = "float" -> "DOUBLE"
      [] x.k = "datetime" -> "DATETIME"
      [] x.k = "str" -> IF Iso8601Text(x.v) THEN "DATETIME" ELSE "TEXT(255)"
      [] OTHER -> "TEXT(255)"
(* C9: _infer_type gives a bool YESNO, an int INTEGER, a float DOUBLE, a
   datetime or an ISO-8601 text (a date, or a date, T and a time, each with
   an optional Z or offset) DATETIME, and every other value TEXT(255). *)
C9_TypeByPrecedence == vpc = "inferred" => inferred = ExpectedType(value)

(* C10: for a non-empty list of top-level records, _load_json leaves one
   organisation record per top-level record, in order, equal to it without
   its Communications field, and the communication records are the elements
   of the Communications.results arrays, in order and unmodified; a record
   without the field or without a nested results array contributes none. *)
C10_LoaderSplit ==
    (ListOfRecords /\ pc # "load_json")
        => (org_records = ExpectedParents /\ comm_records = ExpectedChildren)

=============================================================================
